---- MODULE Spec2Model ----
(***************************************************************************)
(* Homberger VRPTW instance converter (zso3n3n/ml-for-gpu).                *)
(*                                                                         *)
(* Two copies of the converter exist: src/optimization/utils (the sentinel *)
(* "CUSTOMER" line anchors the parse) and src/utils (fixed line offsets).  *)
(* Both share convert_homberger_to_parquet; the state variable `variant`   *)
(* says which copy runs.                                                   *)
(*                                                                         *)
(* Text is modelled down to the level the code looks at it: a file is a    *)
(* sequence of lines, a line a sequence of whitespace-separated tokens, a  *)
(* name a sequence of characters.                                          *)
(***************************************************************************)
EXTENDS Integers, Sequences, FiniteSets, TLC

(***************************************************************************)
(* Bounds of the model                                                     *)
(***************************************************************************)
MaxRows == 2        \* data lines after the header block of an instance file
MaxEntries == 2     \* members of an archive

(***************************************************************************)
(* Characters, tokens, lines                                               *)
(***************************************************************************)
\* a token is a word (characters, not a number), an integer literal "v" or
\* a decimal literal "v.0"
W(s) == [k |-> "w", v |-> 0, s |-> s]
I(v) == [k |-> "i", v |-> v, s |-> <<>>]
D(v) == [k |-> "d", v |-> v, s |-> <<>>]

DigitChars == <<"0", "1", "2", "3", "4", "5", "6", "7", "8", "9">>

RECURSIVE Digits(_)
Digits(n) == IF n < 10 THEN <<DigitChars[n + 1]>>
             ELSE Digits(n \div 10) \o <<DigitChars[(n % 10) + 1]>>

\* the characters of a token as they stand in the file
TokenText(t) ==
    IF t.k = "w" THEN t.s
    ELSE LET num == IF t.v < 0 THEN <<"-">> \o Digits(-t.v) ELSE Digits(t.v)
         IN  IF t.k = "d" THEN num \o <<".", "0">> ELSE num

\* the characters of a stripped line (tokens separated by one blank)
RECURSIVE LineText(_)
LineText(line) ==
    IF line = <<>> THEN <<>>
    ELSE IF Len(line) = 1 THEN TokenText(line[1])
    ELSE TokenText(line[1]) \o <<" ">> \o LineText(Tail(line))

StartsWith(s, pre) ==
    /\ Len(pre) <= Len(s)
    /\ SubSeq(s, 1, Len(pre)) = pre

\* s contains sub as a contiguous run
Contains(s, sub) ==
    \E i \in 1..(Len(s) - Len(sub) + 1) : SubSeq(s, i, i + Len(sub) - 1) = sub

CUSTOMER == <<"C", "U", "S", "T", "O", "M", "E", "R">>

\* int(tok) succeeds, float(tok) succeeds
IsInt(t) == t.k = "i"
IsFloat(t) == t.k \in {"i", "d"}

(***************************************************************************)
(* Numeric casts of DataFrame.astype                                       *)
(***************************************************************************)
\* int64 -> int16 keeps the low 16 bits
Int16(v) == ((v + 32768) % 65536) - 32768

\* every integer of the model lies within int32, where int64 -> int32 keeps
\* the value
Int32(v) == v

\* float64 -> float32 of an integral value below 2^25 in magnitude: exact up
\* to 2^24, to the nearest even integer (ties to the even mantissa) above
Float32(v) ==
    LET a == IF v < 0 THEN -v ELSE v
        r == IF a <= 16777216 \/ a % 2 = 0 THEN a
             ELSE IF ((a - 1) \div 2) % 2 = 0 THEN a - 1 ELSE a + 1
    IN  IF v < 0 THEN -r ELSE r

(***************************************************************************)
(* IEEE-754 double arithmetic of (total_demand / vehicle_capacity) * 1.2   *)
(* A positive double is [e, m]: (1 + m[1]/2^13 + m[2]/2^26 + m[3]/2^39 +   *)
(* m[4]/2^52) * 2^e, the 52 fraction bits held in four 13-bit limbs.       *)
(***************************************************************************)
Limb == 8192

RECURSIVE Pow2(_)
Pow2(n) == IF n = 0 THEN 1 ELSE 2 * Pow2(n - 1)

\* largest k >= 0 with b * 2^k <= a (for a >= b > 0)
RECURSIVE ExpDown(_, _)
ExpDown(a, b) == IF 2 * b <= a THEN 1 + ExpDown(a, 2 * b) ELSE 0

\* smallest j >= 0 with a * 2^j >= b (for a, b > 0)
RECURSIVE ExpUp(_, _)
ExpUp(a, b) == IF a >= b THEN 0 ELSE 1 + ExpUp(2 * a, b)

\* the next double above [e, m]
RoundUp(e, m) ==
    IF m[4] + 1 < Limb THEN [e |-> e, m |-> <<m[1], m[2], m[3], m[4] + 1>>]
    ELSE IF m[3] + 1 < Limb THEN [e |-> e, m |-> <<m[1], m[2], m[3] + 1, 0>>]
    ELSE IF m[2] + 1 < Limb THEN [e |-> e, m |-> <<m[1], m[2] + 1, 0, 0>>]
    ELSE IF m[1] + 1 < Limb THEN [e |-> e, m |-> <<m[1] + 1, 0, 0, 0>>]
    ELSE [e |-> e + 1, m |-> <<0, 0, 0, 0>>]

\* round to nearest, ties to even; cmp compares the discarded part with
\* half a unit in the last place (-1 below, 0 equal, 1 above)
Nearest(e, m, cmp) ==
    IF cmp > 0 \/ (cmp = 0 /\ m[4] % 2 = 1) THEN RoundUp(e, m)
    ELSE [e |-> e, m |-> m]

\* n base-2^13 digits of r / bb (r < bb), then the remainder left over
RECURSIVE DivLimbs(_, _, _)
DivLimbs(r, bb, n) ==
    IF n = 0 THEN <<r>>
    ELSE <<(r * Limb) \div bb>> \o DivLimbs((r * Limb) % bb, bb, n - 1)

\* q: four fraction limbs and the remainder of aa / bb, 1 <= aa / bb < 2
RoundQuotient(e, q, bb) ==
    Nearest(e, SubSeq(q, 1, 4),
            IF 2 * q[5] > bb THEN 1 ELSE IF 2 * q[5] = bb THEN 0 ELSE -1)

Normalized(a, b, up, dn) ==
    RoundQuotient(dn - up, DivLimbs(a * Pow2(up) - b * Pow2(dn), b * Pow2(dn), 4),
                  b * Pow2(dn))

\* the double nearest to a / b, for integers 0 < a, b < 2^17
DivF64(a, b) == Normalized(a, b, ExpUp(a, b), IF a >= b THEN ExpDown(a, b) ELSE 0)

\* the double the literal 1.2 denotes: 0x13333333333333 * 2^-52
F64_1_2 == [e |-> 0, m |-> <<1638, 3276, 6553, 4915>>]

\* the 53-bit significand, least significant limb first
Significand(x) == <<x.m[4], x.m[3], x.m[2], x.m[1], 1>>

\* column i of the schoolbook product of two 5-limb numbers
Term(a, b, i, j) == IF i + 1 - j \in 1..5 THEN a[j] * b[i + 1 - j] ELSE 0
Column(a, b, i) ==
    Term(a, b, i, 1) + Term(a, b, i, 2) + Term(a, b, i, 3) + Term(a, b, i, 4)
    + Term(a, b, i, 5)

\* carry propagation over the 9 columns; the last limb keeps what is left
RECURSIVE Propagate(_, _, _, _)
Propagate(a, b, i, carry) ==
    IF i = 9 THEN <<Column(a, b, i) + carry>>
    ELSE <<(Column(a, b, i) + carry) % Limb>>
         \o Propagate(a, b, i + 1, (Column(a, b, i) + carry) \div Limb)

\* p: the 106-bit product, 2^104 <= p < 2^106, rounded to 53 bits
RoundProduct(e, p) ==
    IF p[9] >= 2
    THEN Nearest(e + 1,
                 << (p[8] \div 2) + (p[9] % 2) * 4096,
                    (p[7] \div 2) + (p[8] % 2) * 4096,
                    (p[6] \div 2) + (p[7] % 2) * 4096,
                    (p[5] \div 2) + (p[6] % 2) * 4096 >>,
                 IF p[5] % 2 = 0 THEN -1
                 ELSE IF p[1] + p[2] + p[3] + p[4] > 0 THEN 1 ELSE 0)
    ELSE Nearest(e, <<p[8], p[7], p[6], p[5]>>,
                 IF p[4] < 4096 THEN -1
                 ELSE IF p[4] > 4096 \/ p[1] + p[2] + p[3] > 0 THEN 1 ELSE 0)

\* the double nearest to x * y
MulF64(x, y) == RoundProduct(x.e + y.e, Propagate(Significand(x), Significand(y), 1, 0))

\* int(x) of a positive double below 2^27: the integer part
TruncF64(x) ==
    IF x.e < 0 THEN 0
    ELSE (67108864 + x.m[1] * Limb + x.m[2]) \div Pow2(26 - x.e)

Abs(v) == IF v < 0 THEN -v ELSE v
Max(a, b) == IF a >= b THEN a ELSE b

(***************************************************************************)
(* parse_homberger_file                                                    *)
(***************************************************************************)
\* an exception: its Python class and the place that raised it
Err(exc, at) == [exc |-> exc, at |-> at]
NoErr == Err("", "")

\* lines = [line.strip() for line in f.readlines() if line.strip()]
ReadLines(raw) == SelectSeq(raw, LAMBDA l : l # <<>>)

\* for idx, line in enumerate(lines): if line.startswith("CUSTOMER"): break
\* the index of the first such line, 0 when the loop runs to its else branch
customer_header_idx(lines) ==
    LET hits == {i \in 1..Len(lines) : StartsWith(LineText(lines[i]), CUSTOMER)}
    IN  IF hits = {} THEN 0 ELSE CHOOSE i \in hits : \A j \in hits : i <= j

\* lines[customer_header_idx - 1] in Python's indexing: index -1 is the last
\* line
HeaderLineBefore(lines, idx) == IF idx = 1 THEN lines[Len(lines)] ELSE lines[idx - 1]

\* int(header_parts[0]) and int(header_parts[1]): the exception raised, ""
\* when both convert
HeaderErr(header_parts) ==
    IF ~IsInt(header_parts[1]) THEN "ValueError"
    ELSE IF Len(header_parts) < 2 THEN "IndexError"
    ELSE IF ~IsInt(header_parts[2]) THEN "ValueError"
    ELSE ""

\* the conversions of one row, left to right: int, float, float, int * 4
\* the exception of the first position that fails, "" when all convert
RowErr(parts) ==
    LET conv(k) == IF k \in {2, 3} THEN IsFloat(parts[k]) ELSE IsInt(parts[k])
        bad == {k \in 1..7 : IF k > Len(parts) THEN TRUE ELSE ~conv(k)}
    IN  IF bad = {} THEN ""
        ELSE LET k == CHOOSE i \in bad : \A j \in bad : i <= j
             IN  IF k > Len(parts) THEN "IndexError" ELSE "ValueError"

customer_data(parts) ==
    [customer_id |-> parts[1].v, x |-> parts[2].v, y |-> parts[3].v,
     demand |-> parts[4].v, tw_start |-> parts[5].v, tw_end |-> parts[6].v,
     service_time |-> parts[7].v]

\* the same loop with the depot row also left among the customers
RECURSIVE RowsAfterHeaderDepotKept(_, _, _, _)
RowsAfterHeaderDepotKept(lines, i, customers, depot) ==
    IF i > Len(lines) THEN [exc |-> "", customers |-> customers, depot |-> depot]
    ELSE IF Len(lines[i]) # 7
         THEN RowsAfterHeaderDepotKept(lines, i + 1, customers, depot)
    ELSE IF RowErr(lines[i]) # ""
         THEN [exc |-> RowErr(lines[i]), customers |-> customers, depot |-> depot]
    ELSE LET cd == customer_data(lines[i])
         IN  RowsAfterHeaderDepotKept(lines, i + 1, Append(customers, cd),
                                      IF cd.customer_id = 0 THEN <<cd>> ELSE depot)

\* src/optimization: for line in lines[customer_header_idx + 1:]
\* depot is <<>> for None, <<row>> otherwise
RECURSIVE RowsAfterHeader(_, _, _, _)
RowsAfterHeader(lines, i, customers, depot) ==
    IF i > Len(lines) THEN [exc |-> "", customers |-> customers, depot |-> depot]
    ELSE IF Len(lines[i]) # 7 THEN RowsAfterHeader(lines, i + 1, customers, depot)
    ELSE IF RowErr(lines[i]) # ""
         THEN [exc |-> RowErr(lines[i]), customers |-> customers, depot |-> depot]
    ELSE LET cd == customer_data(lines[i])
         IN  IF cd.customer_id = 0
             THEN RowsAfterHeader(lines, i + 1, customers, <<cd>>)
             ELSE RowsAfterHeader(lines, i + 1, Append(customers, cd), depot)

\* src/utils: for i in range(9, 9 + int(header_parts[0])): if i < len(lines)
\* (i and last are 1-based here)
RECURSIVE RowsAtOffset(_, _, _, _, _)
RowsAtOffset(lines, i, last, customers, depot) ==
    IF i > last THEN [exc |-> "", customers |-> customers, depot |-> depot]
    ELSE IF i > Len(lines) THEN RowsAtOffset(lines, i + 1, last, customers, depot)
    ELSE IF RowErr(lines[i]) # ""
         THEN [exc |-> RowErr(lines[i]), customers |-> customers, depot |-> depot]
    ELSE LET cd == customer_data(lines[i])
         IN  IF cd.customer_id = 0
             THEN RowsAtOffset(lines, i + 1, last, customers, <<cd>>)
             ELSE RowsAtOffset(lines, i + 1, last, Append(customers, cd), depot)

\* pd.DataFrame(customers).astype({...}) on a non-empty list of rows
AsType(customers) ==
    [i \in 1..Len(customers) |->
        [customer_id |-> Int32(customers[i].customer_id),
         x |-> Float32(customers[i].x),
         y |-> Float32(customers[i].y),
         demand |-> Int16(customers[i].demand),
         tw_start |-> Int32(customers[i].tw_start),
         tw_end |-> Int32(customers[i].tw_end),
         service_time |-> Int16(customers[i].service_time)]]

\* customers_df['demand'].sum()
RECURSIVE SumDemand(_)
SumDemand(df) == IF df = <<>> THEN 0 ELSE df[1].demand + SumDemand(Tail(df))

\* int((total_demand / vehicle_capacity) * 1.2) for vehicle_capacity # 0:
\* double division, double multiplication, truncation toward zero
ScaledDemand(total_demand, vehicle_capacity) ==
    IF total_demand = 0 THEN 0
    ELSE LET mag == TruncF64(MulF64(DivF64(Abs(total_demand), Abs(vehicle_capacity)),
                                    F64_1_2))
         IN  IF (total_demand < 0) = (vehicle_capacity < 0) THEN mag ELSE -mag

\* estimated_vehicles = max(1, int((total_demand / vehicle_capacity) * 1.2))
\* a zero capacity makes the quotient inf or nan, which int() rejects
estimated_vehicles(total_demand, vehicle_capacity) ==
    IF vehicle_capacity = 0
    THEN [exc |-> IF total_demand = 0 THEN "ValueError" ELSE "OverflowError", K |-> 0]
    ELSE [exc |-> "", K |-> Max(1, ScaledDemand(total_demand, vehicle_capacity))]

DefaultDepot == [x |-> 50, y |-> 50, tw_start |-> 0, tw_end |-> 1000, service_time |-> 0]

DepotOf(depot) ==
    IF depot # <<>>
    THEN [x |-> depot[1].x, y |-> depot[1].y, tw_start |-> depot[1].tw_start,
          tw_end |-> depot[1].tw_end, service_time |-> depot[1].service_time]
    ELSE DefaultDepot

NoParams == [instance |-> <<>>, K |-> 0, Q |-> 0, depot |-> DefaultDepot]

Failed(exc, at) == [err |-> Err(exc, at), customers_df |-> <<>>, params |-> NoParams]

\* the common tail of both copies: DataFrame, fleet estimate, params
BuildResult(instance_name, vehicle_capacity, customers, depot) ==
    IF customers = <<>> THEN Failed("KeyError", "astype")
    ELSE LET customers_df == AsType(customers)
             est == estimated_vehicles(SumDemand(customers_df), vehicle_capacity)
         IN  IF est.exc # "" THEN Failed(est.exc, "fleet")
             ELSE [err |-> NoErr,
                   customers_df |-> customers_df,
                   params |-> [instance |-> instance_name,
                               K |-> est.K,
                               Q |-> vehicle_capacity,
                               depot |-> DepotOf(depot)]]

\* src/optimization/utils/homberger_to_parquet.py
parse_homberger_file(raw) ==
    LET lines == ReadLines(raw)
        idx == customer_header_idx(lines)
    IN  IF idx = 0 THEN Failed("ValueError", "sentinel")
        ELSE LET header_parts == HeaderLineBefore(lines, idx)
             IN  IF HeaderErr(header_parts) # ""
                 THEN Failed(HeaderErr(header_parts), "header")
                 ELSE LET rows == RowsAfterHeader(lines, idx + 1, <<>>, <<>>)
                      IN  IF rows.exc # "" THEN Failed(rows.exc, "row")
                          ELSE BuildResult(LineText(lines[1]), header_parts[2].v,
                                           rows.customers, rows.depot)

\* src/utils/homberger_to_parquet.py
parse_homberger_file_fixed(raw) ==
    LET lines == ReadLines(raw)
    IN  IF Len(lines) < 5 THEN Failed("IndexError", "header")
        ELSE LET header_parts == lines[5]
             IN  IF HeaderErr(header_parts) # ""
                 THEN Failed(HeaderErr(header_parts), "header")
                 ELSE LET rows == RowsAtOffset(lines, 10, 9 + header_parts[1].v,
                                               <<>>, <<>>)
                      IN  IF rows.exc # "" THEN Failed(rows.exc, "row")
                          ELSE BuildResult(LineText(lines[1]), header_parts[2].v,
                                           rows.customers, rows.depot)

(***************************************************************************)
(* Archives, patterns, paths                                               *)
(***************************************************************************)
\* zip_ref.namelist()
namelist(archive) == [i \in 1..Len(archive) |-> archive[i].name]

\* os.path.basename(f): what follows the last "/"
basename(f) ==
    LET slashes == {i \in 1..Len(f) : f[i] = "/"}
    IN  IF slashes = {} THEN f
        ELSE LET last == CHOOSE i \in slashes : \A j \in slashes : j <= i
             IN  SubSeq(f, last + 1, Len(f))

\* re.match(pattern, s) for a pattern of the shape  pre.*suf : anchored at
\* the start of s only
re_match(pattern, s) ==
    /\ StartsWith(s, pattern.pre)
    /\ Contains(SubSeq(s, Len(pattern.pre) + 1, Len(s)), pattern.suf)

\* the same selection with the pattern tested against the member's full path
matching_files_full_path(archive, pattern) ==
    SelectSeq(namelist(archive), LAMBDA f : re_match(pattern, f))

\* [f for f in zip_ref.namelist() if re.match(instance_pattern, os.path.basename(f))]
matching_files(archive, pattern) ==
    SelectSeq(namelist(archive), LAMBDA f : re_match(pattern, basename(f)))

\* zip_ref.open(name): the member the archive's directory holds for the name
Member(archive, name) ==
    LET is == {i \in 1..Len(archive) : archive[i].name = name}
    IN  archive[CHOOSE i \in is : \A j \in is : j <= i]

\* params['instance'].replace('.', '_').replace(' ', '_')
SafeName(name) ==
    [i \in 1..Len(name) |-> IF name[i] \in {".", " "} THEN "_" ELSE name[i]]

\* os.path.join(output_dir, ...) : a path is its directory, the base name
\* derived from the instance and the fixed rest of the file name
Path(dir, base, ext) == [dir |-> dir, base |-> base, ext |-> ext]
temp_path(dir) == Path(dir, <<>>, "temp_instance.txt")
customers_path(dir, instance) == Path(dir, SafeName(instance), "_customers.parquet")
params_path(dir, instance) == Path(dir, SafeName(instance), "_params.json")

(***************************************************************************)
(* State                                                                   *)
(***************************************************************************)
VARIABLES
    variant,          \* "optimization" or "utils": the copy of the module in use
    procs,            \* the conversions that were launched
    zip_path,         \* per conversion: the archive, a sequence of members
    instance_pattern, \* per conversion: the pattern
    output_dir,       \* per conversion: the output directory
    fs,               \* the files of the output directories: path -> [ino, data]
    pc,               \* per conversion: where it stands
    instance_file,    \* per conversion: matching_files[0]
    target,           \* per conversion: the file the handle `target` is open on
    customers_df,     \* per conversion: the parsed table
    params,           \* per conversion: the parsed parameters
    err               \* per conversion: the exception in flight

vars == <<variant, procs, zip_path, instance_pattern, output_dir, fs, pc,
          instance_file, target, customers_df, params, err>>

inputs == <<variant, procs, zip_path, instance_pattern, output_dir>>

Exists(path) == path \in DOMAIN fs

Parser(raw) == IF variant = "optimization" THEN parse_homberger_file(raw)
               ELSE parse_homberger_file_fixed(raw)

(***************************************************************************)
(* convert_homberger_to_parquet, one action per step                       *)
(***************************************************************************)
\* the same step with the temporary file created before the members are
\* looked through
SelectInstanceAfterOpen(p) ==
    /\ p \in procs
    /\ pc[p] = "start"
    /\ LET found == matching_files(zip_path[p], instance_pattern[p])
       IN  IF found = <<>>
           THEN /\ pc' = [pc EXCEPT ![p] = "raised"]
                /\ err' = [err EXCEPT ![p] = Err("ValueError", "no_match")]
                /\ fs' = (temp_path(output_dir[p]) :> [ino |-> p, data |-> <<>>]) @@ fs
                /\ UNCHANGED instance_file
           ELSE /\ pc' = [pc EXCEPT ![p] = "extract"]
                /\ instance_file' = [instance_file EXCEPT ![p] = found[1]]
                /\ UNCHANGED <<err, fs>>
    /\ UNCHANGED <<inputs, target, customers_df, params>>

\* os.makedirs; open the archive; select the member
SelectInstance(p) ==
    /\ p \in procs
    /\ pc[p] = "start"
    /\ LET found == matching_files(zip_path[p], instance_pattern[p])
       IN  IF found = <<>>
           THEN /\ pc' = [pc EXCEPT ![p] = "raised"]
                /\ err' = [err EXCEPT ![p] = Err("ValueError", "no_match")]
                /\ UNCHANGED instance_file
           ELSE /\ pc' = [pc EXCEPT ![p] = "extract"]
                /\ instance_file' = [instance_file EXCEPT ![p] = found[1]]
                /\ UNCHANGED err
    /\ UNCHANGED <<inputs, fs, target, customers_df, params>>

\* with zip_ref.open(instance_file) as source: with open(temp_path, 'wb') as target
\* creates the file or truncates the one that is there
OpenTemp(p) ==
    /\ p \in procs
    /\ pc[p] = "extract"
    /\ \E ok \in BOOLEAN :
         LET tp == temp_path(output_dir[p])
         IN  IF ok
             THEN /\ fs' = IF Exists(tp) THEN [fs EXCEPT ![tp].data = <<>>]
                           ELSE (tp :> [ino |-> p, data |-> <<>>]) @@ fs
                  /\ target' = [target EXCEPT ![p] = fs'[tp].ino]
                  /\ pc' = [pc EXCEPT ![p] = "copy"]
                  /\ UNCHANGED err
             ELSE /\ pc' = [pc EXCEPT ![p] = "raised"]
                  /\ err' = [err EXCEPT ![p] = Err("OSError", "open_temp")]
                  /\ UNCHANGED <<fs, target>>
    /\ UNCHANGED <<inputs, instance_file, customers_df, params>>

\* target.write(source.read()), outside the try block: a failure leaves
\* the file as it is. The write goes to the file the handle is open on,
\* which another conversion may have unlinked meanwhile.
CopyToTemp(p) ==
    /\ p \in procs
    /\ pc[p] = "copy"
    /\ \E ok \in BOOLEAN :
         LET tp == temp_path(output_dir[p])
         IN  IF ok
             THEN /\ fs' = IF Exists(tp) /\ fs[tp].ino = target[p]
                           THEN [fs EXCEPT ![tp].data =
                                     Member(zip_path[p], instance_file[p]).data]
                           ELSE fs
                  /\ pc' = [pc EXCEPT ![p] = "parse"]
                  /\ UNCHANGED err
             ELSE /\ pc' = [pc EXCEPT ![p] = "raised"]
                  /\ err' = [err EXCEPT ![p] = Err("OSError", "extract_write")]
                  /\ UNCHANGED fs
    /\ UNCHANGED <<inputs, instance_file, target, customers_df, params>>

\* try: customers_df, params = parse_homberger_file(temp_path)
ParseTemp(p) ==
    /\ p \in procs
    /\ pc[p] = "parse"
    /\ LET tp == temp_path(output_dir[p])
           r == IF Exists(tp) THEN Parser(fs[tp].data)
                ELSE Failed("FileNotFoundError", "parse")
       IN  /\ customers_df' = [customers_df EXCEPT ![p] = r.customers_df]
           /\ params' = [params EXCEPT ![p] = r.params]
           /\ err' = [err EXCEPT ![p] = r.err]
           /\ pc' = [pc EXCEPT ![p] = IF r.err = NoErr THEN "save_customers"
                                      ELSE "finally"]
    /\ UNCHANGED <<inputs, fs, instance_file, target>>

\* the same step with a failed write swallowed: the conversion goes on
SaveCustomersSwallowed(p) ==
    /\ p \in procs
    /\ pc[p] = "save_customers"
    /\ \E ok \in BOOLEAN :
         fs' = IF ok THEN (customers_path(output_dir[p], params[p].instance)
                              :> [ino |-> 0, data |-> customers_df[p]]) @@ fs
               ELSE fs
    /\ pc' = [pc EXCEPT ![p] = "save_params"]
    /\ UNCHANGED <<inputs, instance_file, target, customers_df, params, err>>

\* customers_df.to_parquet(customers_path, index=False)
SaveCustomers(p) ==
    /\ p \in procs
    /\ pc[p] = "save_customers"
    /\ \E ok \in BOOLEAN :
         IF ok
         THEN /\ fs' = (customers_path(output_dir[p], params[p].instance)
                           :> [ino |-> 0, data |-> customers_df[p]]) @@ fs
              /\ pc' = [pc EXCEPT ![p] = "save_params"]
              /\ UNCHANGED err
         ELSE /\ pc' = [pc EXCEPT ![p] = "finally"]
              /\ err' = [err EXCEPT ![p] = Err("OSError", "to_parquet")]
              /\ UNCHANGED fs
    /\ UNCHANGED <<inputs, instance_file, target, customers_df, params>>

\* with open(params_path, 'w') as f: json.dump(params, f, indent=2)
SaveParams(p) ==
    /\ p \in procs
    /\ pc[p] = "save_params"
    /\ \E ok \in BOOLEAN :
         IF ok
         THEN /\ fs' = (params_path(output_dir[p], params[p].instance)
                           :> [ino |-> 0, data |-> params[p]]) @@ fs
              /\ UNCHANGED err
         ELSE /\ err' = [err EXCEPT ![p] = Err("OSError", "json_dump")]
              /\ UNCHANGED fs
    /\ pc' = [pc EXCEPT ![p] = "finally"]
    /\ UNCHANGED <<inputs, instance_file, target, customers_df, params>>

\* how the call ends once the finally block is through
Outcome(p) == IF err[p] = NoErr THEN "returned" ELSE "raised"

\* finally: if os.path.exists(temp_path):
CleanupCheck(p) ==
    /\ p \in procs
    /\ pc[p] = "finally"
    /\ pc' = [pc EXCEPT ![p] = IF Exists(temp_path(output_dir[p])) THEN "remove"
                               ELSE Outcome(p)]
    /\ UNCHANGED <<inputs, fs, instance_file, target, customers_df, params, err>>

\* os.remove(temp_path); the file may have gone since the check
CleanupRemove(p) ==
    /\ p \in procs
    /\ pc[p] = "remove"
    /\ LET tp == temp_path(output_dir[p])
       IN  IF Exists(tp)
           THEN /\ fs' = [q \in DOMAIN fs \ {tp} |-> fs[q]]
                /\ pc' = [pc EXCEPT ![p] = Outcome(p)]
                /\ UNCHANGED err
           ELSE /\ pc' = [pc EXCEPT ![p] = "raised"]
                /\ err' = [err EXCEPT ![p] = Err("FileNotFoundError", "remove")]
                /\ UNCHANGED fs
    /\ UNCHANGED <<inputs, instance_file, target, customers_df, params>>

\* at most two conversions are ever launched
Next ==
    \E p \in {1, 2} :
        \/ SelectInstance(p)
        \/ OpenTemp(p)
        \/ CopyToTemp(p)
        \/ ParseTemp(p)
        \/ SaveCustomers(p)
        \/ SaveParams(p)
        \/ CleanupCheck(p)
        \/ CleanupRemove(p)

(***************************************************************************)
(* Inputs: instance files                                                  *)
(***************************************************************************)
VehicleLine == <<W(<<"V", "E", "H", "I", "C", "L", "E">>)>>
NumberCapacityLine == <<W(<<"N", "U", "M", "B", "E", "R">>), W(<<"C", "A", "P", "A", "C", "I", "T", "Y">>)>>
CustomerLine == <<W(CUSTOMER)>>
ColumnLine ==
    <<W(<<"C", "U", "S", "T">>), W(<<"N", "O", ".">>), W(<<"X", "C", "O", "O", "R", "D", ".">>), 
       W(<<"Y", "C", "O", "O", "R", "D", ".">>), W(<<"D", "E", "M", "A", "N", "D">>), 
       W(<<"R", "E", "A", "D", "Y">>), W(<<"T", "I", "M", "E">>), W(<<"D", "U", "E">>), W(<<"D", "A", "T", "E">>), W(<<"S", "E", "R", "V", "I", "C", "E">>), W(<<"T", "I", "M", "E">>)>>
RuleLine == <<W(<<"-", "-", "-", "-">>)>>
Blank == <<>>

HeaderLine(count, capacity) == <<I(count), I(capacity)>>

\* the layout of the published Homberger files, blank lines included
LandmarkFile(name, count, capacity, rows) ==
    << <<W(name)>>, Blank, VehicleLine, NumberCapacityLine,
       HeaderLine(count, capacity), Blank, CustomerLine, ColumnLine, Blank >> \o rows

\* the published layout with a remark line "CUSTOMERS" ahead of the vehicle
\* block
RemarkLine == <<W(CUSTOMER \o <<"S">>)>>

RemarkFile(name, count, capacity, rows) ==
    << <<W(name)>>, RuleLine, RemarkLine, Blank, VehicleLine, NumberCapacityLine,
       HeaderLine(count, capacity), Blank, CustomerLine, ColumnLine, Blank >> \o rows

\* no sentinel line: the header is the 5th non-blank line, rows start at the
\* 10th
FixedFile(name, count, capacity, rows) ==
    << <<W(name)>>, VehicleLine, NumberCapacityLine, RuleLine,
       HeaderLine(count, capacity), RuleLine, ColumnLine, RuleLine, RuleLine >> \o rows

\* a file both copies of the parser accept: the sentinel follows the header
\* at the 5th line, rows start at the 10th
DualFile(name, count, capacity, rows) ==
    << <<W(name)>>, VehicleLine, NumberCapacityLine, RuleLine,
       HeaderLine(count, capacity), CustomerLine, ColumnLine, RuleLine, RuleLine >> \o rows

Row(id, x, y, demand, tw_start, tw_end, service_time) ==
    <<I(id), I(x), I(y), I(demand), I(tw_start), I(tw_end), I(service_time)>>

DepotRowDefault == <<I(0), D(50), D(50), I(0), I(0), I(1000), I(0)>>
DepotRow == Row(0, 70, 70, 0, 0, 1351, 0)
RowA == Row(1, 10, 20, 35, 0, 100, 10)
RowB == Row(2, 16777217, 40, 1980, 5, 200, 10)
RowWide == Row(1, 15, 25, 40000, 0, 100, 10)       \* id of RowA, demand beyond int16
RowNegDemand == Row(3, 5, 5, -5, 0, 100, 10)
RowBadWindow == Row(4, 5, 5, 20, 300, 100, -1)     \* tw_start > tw_end, service_time < 0
RowNotNumeric == <<I(5), W(<<"x">>), I(5), I(20), I(0), I(100), I(10)>>
StrayLine == <<W(<<"E", "O", "F">>)>>

Rows == {DepotRowDefault, DepotRow, RowA, RowB, RowWide, RowNegDemand,
         RowBadWindow, RowNotNumeric, StrayLine}

RowSeqs == UNION {[1..n -> Rows] : n \in 0..MaxRows}

Capacities == {200, 3, 0, -5}

InstanceName == <<"R", "C", "2", "_", "1">>

InstanceFiles ==
    {LandmarkFile(InstanceName, Len(rows), cap, rows) : rows \in RowSeqs, cap \in Capacities}
    \cup {FixedFile(InstanceName, Len(rows), cap, rows) : rows \in RowSeqs, cap \in Capacities}
    \cup {RemarkFile(InstanceName, Len(rows), cap, rows) : rows \in RowSeqs, cap \in Capacities}

(***************************************************************************)
(* Inputs: archives and patterns                                           *)
(***************************************************************************)
PatternRC2 == [pre |-> <<"r", "c", "2">>, suf |-> <<".", "t", "x", "t">>]
PatternC2 == [pre |-> <<"c", "2">>, suf |-> <<".", "t", "x", "t">>]
Patterns == {PatternRC2, PatternC2}

EntryNames == {<<"r", "c", "2", "a", ".", "t", "x", "t">>,
               <<"x", "/", "r", "c", "2", "b", ".", "t", "x", "t">>,
               <<"r", "c", "2", "/", "c", "2", "a", ".", "t", "x", "t">>,
               <<"n", "o", "t", "e", "s", ".", "m", "d">>}

\* a small instance every layout rule reads alike, named after its member
MemberFile(name) == DualFile(basename(name), 2, 200, <<DepotRow, RowA>>)

Injective(f) == \A i, j \in DOMAIN f : f[i] = f[j] => i = j

\* archives of up to MaxEntries members with pairwise different names
Archives ==
    {[i \in DOMAIN names |-> [name |-> names[i], data |-> MemberFile(names[i])]] :
        names \in {ns \in UNION {[1..n -> EntryNames] : n \in 0..MaxEntries} :
                      Injective(ns)}}

Variants == {"optimization", "utils"}

\* one conversion: every archive with every pattern, and every instance
\* file as the only member of an archive
SingleInputs ==
    {[variant |-> v, archive |-> a, pattern |-> pat] :
        v \in Variants, a \in Archives, pat \in Patterns}
    \cup {[variant |-> v,
           archive |-> <<[name |-> <<"r", "c", "2", "a", ".", "t", "x", "t">>, data |-> f]>>,
           pattern |-> PatternRC2] : v \in Variants, f \in InstanceFiles}

Idle(ps) ==
    /\ fs = <<>>
    /\ pc = [p \in ps |-> "start"]
    /\ instance_file = [p \in ps |-> <<>>]
    /\ target = [p \in ps |-> 0]
    /\ customers_df = [p \in ps |-> <<>>]
    /\ params = [p \in ps |-> NoParams]
    /\ err = [p \in ps |-> NoErr]

Init ==
    /\ procs = {1}
    /\ \E in \in SingleInputs :
         /\ variant = in.variant
         /\ zip_path = [p \in procs |-> in.archive]
         /\ instance_pattern = [p \in procs |-> in.pattern]
    /\ output_dir = [p \in procs |-> "d1"]
    /\ Idle(procs)

Spec == Init /\ [][Next]_vars

(***************************************************************************)
(* Two conversions at once (batch mode over worker threads or processes)   *)
(***************************************************************************)
\* instance RC2.1 next to an instance of another base name (C2_1) or of the
\* same one (RC2_1)
ParArchive(other) ==
    <<[name |-> <<"r", "c", "2", "a", ".", "t", "x", "t">>,
       data |-> DualFile(<<"R", "C", "2", ".", "1">>, 2, 200, <<DepotRow, RowA>>)],
      [name |-> <<"c", "2", "a", ".", "t", "x", "t">>,
       data |-> DualFile(other, 2, 200, <<DepotRowDefault, RowB>>)]>>

InitPar ==
    /\ procs = {1, 2}
    /\ variant \in Variants
    /\ \E other \in {<<"C", "2", "_", "1">>, <<"R", "C", "2", "_", "1">>} :
         zip_path = [p \in procs |-> ParArchive(other)]
    /\ instance_pattern \in [procs -> Patterns]
    /\ output_dir \in {[p \in procs |-> "d1"], (1 :> "d1") @@ (2 :> "d2")}
    /\ Idle(procs)

SpecPar == InitPar /\ [][Next]_vars

(***************************************************************************)
(* What the input of a conversion says, read off the archive independently *)
(* of the steps above                                                      *)
(***************************************************************************)
Done(p) == pc[p] \in {"returned", "raised"}

\* some member's base name matches the pattern
HasMatch(p) ==
    \E i \in 1..Len(zip_path[p]) :
        re_match(instance_pattern[p], basename(zip_path[p][i].name))

\* member i is the first, in the archive's order, whose base name matches
FirstMatch(p, i) ==
    /\ re_match(instance_pattern[p], basename(zip_path[p][i].name))
    /\ \A j \in 1..(i - 1) :
          ~re_match(instance_pattern[p], basename(zip_path[p][j].name))

\* the instance file a conversion is given: its first matching member
OwnFile(p) ==
    zip_path[p][CHOOSE i \in 1..Len(zip_path[p]) : FirstMatch(p, i)].data

FilesIn(dir, ext) == {path \in DOMAIN fs : path.dir = dir /\ path.ext = ext}

\* the conversion wrote neither artifact
NoArtifacts(p) ==
    /\ FilesIn(output_dir[p], "_customers.parquet") = {}
    /\ FilesIn(output_dir[p], "_params.json") = {}

\* the parse step is behind the conversion and it succeeded
Parsed(p) == pc[p] \in {"save_customers", "save_params", "finally", "remove",
                        "returned", "raised"} /\ params[p] # NoParams

\* the parse step is behind the conversion, whatever came of it
AfterParse(p) ==
    \/ pc[p] \in {"save_customers", "save_params", "finally", "remove"}
    \/ Done(p) /\ err[p].at \notin {"no_match", "open_temp", "extract_write"}

\* a line of seven numeric fields: a point record as the file gives it
IsPointRow(line) == Len(line) = 7 /\ \A k \in 1..7 : line[k].k # "w"

PointRows(raw) == SelectSeq(raw, IsPointRow)

\* the line "declared_point_count capacity", and the capacity it declares
IsHeaderLine(line) == Len(line) = 2 /\ line[1].k = "i" /\ line[2].k = "i"

HeaderIndex(raw) == CHOOSE i \in 1..Len(raw) : IsHeaderLine(raw[i])

DeclaredCapacity(raw) == raw[HeaderIndex(raw)][2].v

\* the sum of the demand fields of the rows with id # 0, as written
RECURSIVE InputDemand(_)
InputDemand(rows) ==
    IF rows = <<>> THEN 0
    ELSE (IF rows[1][1].v # 0 THEN rows[1][4].v ELSE 0) + InputDemand(Tail(rows))

\* a row breaks a rule of the schema: demand >= 0, tw_start <= tw_end,
\* service_time >= 0, ids pairwise different (so at most one id 0)
SchemaViolation(raw) ==
    LET rows == PointRows(raw)
    IN  \/ \E i \in 1..Len(rows) :
              \/ rows[i][4].v < 0
              \/ rows[i][5].v > rows[i][6].v
              \/ rows[i][7].v < 0
        \/ \E i, j \in 1..Len(rows) : i # j /\ rows[i][1].v = rows[j][1].v

\* the file has no line starting with the sentinel
NoSentinel(raw) == \A i \in 1..Len(raw) : ~StartsWith(LineText(raw[i]), CUSTOMER)

\* for a file in the fixed-offset layout: the landmark-layout file with the
\* same identifier, header and rows
LandmarkTwin(raw) ==
    LandmarkFile(raw[1][1].s, raw[5][1].v, raw[5][2].v, SubSeq(raw, 10, Len(raw)))

NoDepotRow(raw) == \A i \in 1..Len(raw) : IsPointRow(raw[i]) => raw[i][1].v # 0

\* the same file with one more point declared and a depot row carrying the
\* default values added at the end
WithDefaultDepotRow(raw) ==
    Append([raw EXCEPT ![HeaderIndex(raw)] = HeaderLine(@[1].v + 1, @[2].v)],
           DepotRowDefault)

\* the rows of a file by id: the customers (id # 0) and the depot rows
\* (id 0), each in the order of the file
IsCustomerRow(line) == line[1].v # 0
IsDepotRow(line) == line[1].v = 0
CustomerRows(raw) == SelectSeq(PointRows(raw), IsCustomerRow)
DepotRows(raw) == SelectSeq(PointRows(raw), IsDepotRow)

\* a row of the file as a record of the customer table, each field in the
\* type of its column
TableRow(line) ==
    [customer_id |-> Int32(line[1].v), x |-> Float32(line[2].v),
     y |-> Float32(line[3].v), demand |-> Int16(line[4].v),
     tw_start |-> Int32(line[5].v), tw_end |-> Int32(line[6].v),
     service_time |-> Int16(line[7].v)]

\* the depot fields of the params as a row of the file gives them
DepotFields(line) ==
    [x |-> line[2].v, y |-> line[3].v, tw_start |-> line[5].v,
     tw_end |-> line[6].v, service_time |-> line[7].v]

\* the landmark layout read off the file: its non-blank lines, the first of
\* them whose first token is the marker (0 when there is none), the line
\* before it, and the lines of 7 tokens after it
Lines(raw) == SelectSeq(raw, LAMBDA l : Len(l) > 0)

IsSentinel(line) == line[1].k = "w" /\ line[1].s = CUSTOMER

SentinelIndex(raw) ==
    IF \A i \in 1..Len(Lines(raw)) : ~IsSentinel(Lines(raw)[i]) THEN 0
    ELSE CHOOSE i \in 1..Len(Lines(raw)) :
            /\ IsSentinel(Lines(raw)[i])
            /\ \A j \in 1..(i - 1) : ~IsSentinel(Lines(raw)[j])

LineBeforeSentinel(raw) == Lines(raw)[SentinelIndex(raw) - 1]

HasSevenTokens(line) == Len(line) = 7

CandidateRows(raw) ==
    SelectSeq(SubSeq(Lines(raw), SentinelIndex(raw) + 1, Len(Lines(raw))),
              HasSevenTokens)

\* a landmark file whose sentinel has a line before it that starts with two
\* integers
LandmarkHeaded(raw) ==
    /\ SentinelIndex(raw) > 1
    /\ Len(LineBeforeSentinel(raw)) >= 2
    /\ LineBeforeSentinel(raw)[1].k = "i"
    /\ LineBeforeSentinel(raw)[2].k = "i"

\* what a conversion yields when nothing else touches its files
Alone(p) == Parser(OwnFile(p))

\* failures of the conversion's own reads and writes
IOFailures == {"open_temp", "extract_write", "to_parquet", "json_dump"}

(***************************************************************************)
(* Claims                                                                  *)
(***************************************************************************)

\* C1: a conversion that found its member and has returned or raised has
\* left no temp_instance.txt in its output directory, whichever step failed.
C1_TempFileRemoved ==
    \A p \in procs :
        (Done(p) /\ instance_file[p] # <<>>) => ~Exists(temp_path(output_dir[p]))

\* C2: of two concurrent conversions whose instances give different output
\* base names, each one that ends has either failed on an I/O error of its
\* own or returned with a customers file and a params file holding what its
\* own archive member parses to.
C2_ParallelIndependent ==
    \A p \in procs : \A q \in procs \ {p} :
        ( /\ HasMatch(p) /\ HasMatch(q)
          /\ Alone(p).err = NoErr /\ Alone(q).err = NoErr
          /\ SafeName(Alone(p).params.instance) # SafeName(Alone(q).params.instance)
          /\ Done(p) )
        => \/ pc[p] = "raised" /\ err[p].at \in IOFailures
           \/ /\ pc[p] = "returned"
              /\ Exists(customers_path(output_dir[p], Alone(p).params.instance))
              /\ fs[customers_path(output_dir[p], Alone(p).params.instance)].data
                    = Alone(p).customers_df
              /\ Exists(params_path(output_dir[p], Alone(p).params.instance))
              /\ fs[params_path(output_dir[p], Alone(p).params.instance)].data
                    = Alone(p).params

\* C3: a params file is in the output directory only once the customers
\* file of the same conversion is, and after a failed customers write the
\* conversion ends with no params file written.
C3_CustomersBeforeParams ==
    \A p \in procs :
        /\ FilesIn(output_dir[p], "_params.json") # {}
              => /\ pc[p] \in {"finally", "remove", "returned", "raised"}
                 /\ Exists(customers_path(output_dir[p], params[p].instance))
        /\ err[p].at = "to_parquet" => FilesIn(output_dir[p], "_params.json") = {}

\* a conversion whose customers write failed has ended
C3_Witness ==
    \E p \in procs :
        /\ pc[p] = "raised"
        /\ err[p].at = "to_parquet"
        /\ FilesIn(output_dir[p], "_params.json") = {}

\* C4: when no member's base name matches the pattern the conversion fails
\* with the no-match error and no file at all has been created.
C4_NoMatchNoFiles ==
    \A p \in procs :
        (~HasMatch(p) /\ pc[p] # "start")
        => /\ pc[p] = "raised"
           /\ err[p] = Err("ValueError", "no_match")
           /\ DOMAIN fs = {}

\* an archive with members, none matching, was refused
C4_Witness ==
    \E p \in procs :
        /\ ~HasMatch(p)
        /\ Len(zip_path[p]) > 0
        /\ pc[p] = "raised"

C6_FleetSize ==
    \A p \in procs :
        (Parsed(p) /\ DeclaredCapacity(OwnFile(p)) > 0)
        => params[p].K = Max(1, (6 * InputDemand(PointRows(OwnFile(p))))
                                \div (5 * DeclaredCapacity(OwnFile(p))))

\* C7: a declared capacity <= 0 makes the parse fail: no params record is
\* produced and no artifact is written.
C7_InvalidCapacityRejected ==
    \A p \in procs :
        (HasMatch(p) /\ AfterParse(p) /\ DeclaredCapacity(OwnFile(p)) <= 0)
        => /\ err[p] # NoErr
           /\ params[p] = NoParams
           /\ NoArtifacts(p)

\* C8: an instance (of positive capacity) with a row that breaks the schema
\* (negative demand, tw_start > tw_end, negative service time, a repeated
\* id) fails to parse and no artifact is written.
C8_SchemaEnforced ==
    \A p \in procs :
        ( /\ HasMatch(p) /\ AfterParse(p)
          /\ DeclaredCapacity(OwnFile(p)) > 0
          /\ SchemaViolation(OwnFile(p)) )
        => /\ err[p] # NoErr
           /\ params[p] = NoParams
           /\ NoArtifacts(p)

\* C9: a well-formed file without sentinel line parses, by fallback to the
\* fixed-offset rule, to the params and customer records the landmark-layout
\* file with the same header and rows parses to.
C9_FallbackEquivalence ==
    \A p \in procs :
        ( /\ HasMatch(p) /\ AfterParse(p)
          /\ NoSentinel(OwnFile(p))
          /\ DeclaredCapacity(OwnFile(p)) > 0
          /\ ~SchemaViolation(OwnFile(p))
          /\ parse_homberger_file(LandmarkTwin(OwnFile(p))).err = NoErr )
        => /\ params[p] = parse_homberger_file(LandmarkTwin(OwnFile(p))).params
           /\ customers_df[p]
                 = parse_homberger_file(LandmarkTwin(OwnFile(p))).customers_df

\* C10: a well-formed instance without a row of id 0 gets the default
\* depot, and its result differs from that of the same instance with a depot
\* row holding exactly the default values.
C10_DefaultDepotDetectable ==
    \A p \in procs :
        ( /\ Parsed(p) /\ NoDepotRow(OwnFile(p))
          /\ DeclaredCapacity(OwnFile(p)) > 0
          /\ ~SchemaViolation(OwnFile(p)) )
        => /\ params[p].depot = DefaultDepot
           /\ <<customers_df[p], params[p]>>
                 # <<Parser(WithDefaultDepotRow(OwnFile(p))).customers_df,
                     Parser(WithDefaultDepotRow(OwnFile(p))).params>>

\* C11: the customer table of a parsed instance holds the rows with id # 0
\* of the input, each once and in the input's order, and no row with id 0;
\* when the input has a row with id 0, the depot fields of the params are
\* that row's (the last one's, should there be several).
C11_DepotCustomerSplit ==
    \A p \in procs :
        Parsed(p)
        => /\ Len(customers_df[p]) = Len(CustomerRows(OwnFile(p)))
           /\ \A i \in 1..Len(customers_df[p]) :
                 /\ customers_df[p][i] = TableRow(CustomerRows(OwnFile(p))[i])
                 /\ customers_df[p][i].customer_id # 0
           /\ DepotRows(OwnFile(p)) # <<>>
              => params[p].depot
                    = DepotFields(DepotRows(OwnFile(p))[Len(DepotRows(OwnFile(p)))])

\* a conversion that returned after parsing a depot row followed by a
\* customer row: one row in the table, the depot's fields in the params
C11_Witness ==
    /\ pc[1] = "returned"
    /\ err[1] = NoErr
    /\ PointRows(OwnFile(1)) = <<DepotRow, RowB>>
    /\ Len(customers_df[1]) = 1
    /\ customers_df[1][1].customer_id = 2
    /\ params[1].depot.x = 70

\* C12: under the landmark rule, for a file whose sentinel (the first line
\* with first token CUSTOMER) follows a line starting with two integers:
\* the capacity is the second token of that line; the rows are the 7-token
\* lines after the sentinel, lines of another token count raising nothing;
\* a 7-token line with a field that is not a number makes the parse fail
\* at that row.
C12_LandmarkParsing ==
    \A p \in procs :
        ( /\ variant = "optimization"
          /\ HasMatch(p) /\ AfterParse(p)
          /\ LandmarkHeaded(OwnFile(p)) )
        => IF \E i \in 1..Len(CandidateRows(OwnFile(p))) :
                 ~IsPointRow(CandidateRows(OwnFile(p))[i])
           THEN /\ params[p] = NoParams
                /\ pc[p] = "finally" => err[p] = Err("ValueError", "row")
           ELSE /\ err[p].at \notin {"sentinel", "header", "row"}
                /\ Parsed(p)
                   => /\ params[p].Q = LineBeforeSentinel(OwnFile(p))[2].v
                      /\ Len(customers_df[p])
                            = Len(SelectSeq(CandidateRows(OwnFile(p)), IsCustomerRow))

====
